---- MODULE Spec2Model ----
(***************************************************************************)
(* Model of spss_win_wrapper.py: the configuration resolver (get_config,   *)
(* load_config_file), the config-file writer (create_config_file), the     *)
(* path translator (resolve_and_validate_path, translate_path_to_windows), *)
(* the command builder (build_spss_command) and the driver (main).         *)
(*                                                                         *)
(* Python strings are TLA+ strings; None is the sentinel NoneVal, which is *)
(* never a value of any input.  A run of main is one behaviour: the        *)
(* command line, the environment, the config file and the host file system *)
(* are drawn in Init, the outcomes of the external processes are drawn     *)
(* when they are spawned.                                                  *)
(***************************************************************************)
EXTENDS Integers, Sequences, FiniteSets, TLC

VARIABLES
    pc,             \* position of main: "main", "configured", "loop", "translate", "launch", "done"
    args,           \* the parsed command line (parameters of main)
    environ,        \* os.environ, restricted to the three variables read
    cfgFile,        \* the file at CONFIG_FILE_PATH
    existing,       \* the resolved host paths that exist
    config,         \* the Config built by get_config (NoConfig before)
    idx,            \* 1-based position of the for loop over files
    linux_path,     \* the validated path of the current iteration
    windows_paths,  \* translated paths collected so far
    cmd,            \* the vector built by build_spss_command
    spawned,        \* argv of every subprocess.run call, in order
    result,         \* how the last subprocess.run call ended
    stdout,         \* lines echoed to standard output
    stderr,         \* diagnostics echoed to standard error
    exit_code       \* process exit code (Running until the run ends)

vars == <<pc, args, environ, cfgFile, existing, config, idx, linux_path,
          windows_paths, cmd, spawned, result, stdout, stderr, exit_code>>

----------------------------------------------------------------------------
(* Bounds *)

MaxFiles == 2       \* longest list of positional file arguments
MaxOut == 2         \* every helper output of at most this many characters is tried

----------------------------------------------------------------------------
(* Constants of the program *)

DEFAULT_BOTTLE_NAME == "SPSS"
DEFAULT_PROGRAM_NAME == "SPSS"
DEFAULT_FLATPAK_APP_ID == "com.usebottles.bottles"
CONFIG_FILE_PATH == "~/.config/spss-wrapper/config.toml"

NoneVal == "<None>"
Running == -1

\* Config(bottle_name, program_name, flatpak_app_id)
Config(b, p, f) == [bottle_name |-> b, program_name |-> p, flatpak_app_id |-> f]

NoConfig == Config(NoneVal, NoneVal, NoneVal)

----------------------------------------------------------------------------
(* Python primitives used by the program *)

\* truth value of an Optional[str]: None and '' are falsy
Truthy(v) == v /= NoneVal /\ v /= ""

\* a or b
Or(a, b) == IF Truthy(a) THEN a ELSE b

\* str.strip(): characters removed at both ends
Whitespace == {" ", "\t", "\n", "\r"}

RECURSIVE LStrip(_)
LStrip(s) ==
    IF Len(s) > 0 /\ SubSeq(s, 1, 1) \in Whitespace
    THEN LStrip(SubSeq(s, 2, Len(s)))
    ELSE s

RECURSIVE RStrip(_)
RStrip(s) ==
    IF Len(s) > 0 /\ SubSeq(s, Len(s), Len(s)) \in Whitespace
    THEN RStrip(SubSeq(s, 1, Len(s) - 1))
    ELSE s

Strip(s) == RStrip(LStrip(s))

\* ' '.join(seq)
RECURSIVE Join(_)
Join(seq) ==
    IF Len(seq) = 0 THEN ""
    ELSE IF Len(seq) = 1 THEN seq[1]
    ELSE seq[1] \o " " \o Join(Tail(seq))

\* Path(file_path).resolve(): a relative path is anchored at the working directory
Cwd == "/home/u"

Resolve(file_path) ==
    IF Len(file_path) > 0 /\ SubSeq(file_path, 1, 1) = "/"
    THEN file_path
    ELSE Cwd \o "/" \o file_path

----------------------------------------------------------------------------
(* Inputs of a run *)

\* values a layer can hold for each field: unset (None), empty, or set
LayerValues(set) == {NoneVal, "", set}

\* the overrides --bottle, --program, --flatpak-app-id
Overrides(B, P, F) == [bottle : B, program : P, flatpak_app_id : F]

\* SPSS_BOTTLE_NAME, SPSS_PROGRAM_NAME, BOTTLES_FLATPAK_APP_ID
Environs(B, P, F) ==
    [SPSS_BOTTLE_NAME : B, SPSS_PROGRAM_NAME : P, BOTTLES_FLATPAK_APP_ID : F]

\* the table of a config file that parses; NoneVal is a key that is missing
Tables(B, P, F) == [bottle_name : B, program_name : P, flatpak_app_id : F]

EmptyTable == Config(NoneVal, NoneVal, NoneVal)

\* the config file: absent, or present and what reading it raises
\*   "unreadable": open() raises OSError
\*   "malformed" : tomllib.load raises TOMLDecodeError
\*   "badutf8"   : tomllib.load raises UnicodeDecodeError (bytes that are not UTF-8)
\*   "valid"     : tomllib.load returns the table
\*   "written"   : the text written by create_config_file in this run
BrokenFiles ==
    { [kind |-> k, data |-> EmptyTable] : k \in {"absent", "unreadable", "malformed", "badutf8"} }

ValidFiles(T) == { [kind |-> "valid", data |-> t] : t \in T }

\* every combination of the four layers, field by field
AllOverrides == Overrides(LayerValues("Bc"), LayerValues("Pc"), LayerValues("Fc"))
AllEnvirons == Environs(LayerValues("Be"), LayerValues("Pe"), LayerValues("Fe"))
AllFiles ==
    BrokenFiles \cup
    ValidFiles(Tables(LayerValues("Bf"), LayerValues("Pf"), LayerValues("Ff")))

\* a few combinations, for the runs that go through the whole pipeline
SomeOverrides ==
    { [bottle |-> NoneVal, program |-> NoneVal, flatpak_app_id |-> NoneVal],
      [bottle |-> "Bc", program |-> "", flatpak_app_id |-> NoneVal] }
SomeEnvirons ==
    { [SPSS_BOTTLE_NAME |-> "Be", SPSS_PROGRAM_NAME |-> "Pe",
       BOTTLES_FLATPAK_APP_ID |-> ""] }
SomeFiles ==
    BrokenFiles \cup
    ValidFiles({ Config("", NoneVal, "Ff") })

\* positional arguments: a relative and an absolute path
FileNames == {"a.sav", "/d/b.sav"}

RECURSIVE SeqsUpTo(_, _)
SeqsUpTo(S, n) ==
    IF n = 0 THEN {<<>>}
    ELSE LET R == SeqsUpTo(S, n - 1)
         IN  R \cup { Append(r, x) : r \in { q \in R : Len(q) = n - 1 }, x \in S }

FileLists == SeqsUpTo(FileNames, MaxFiles)

\* the flags; --force only has a meaning together with --init-config
Flags ==
    { f \in [verbose : BOOLEAN, dry_run : BOOLEAN, init_config : BOOLEAN, force : BOOLEAN] :
        f.force => f.init_config }

Args(files, o, f) ==
    [files |-> files, bottle |-> o.bottle, program |-> o.program,
     flatpak_app_id |-> o.flatpak_app_id, verbose |-> f.verbose,
     dry_run |-> f.dry_run, init_config |-> f.init_config, force |-> f.force]

\* how a subprocess.run call ends: the executable is missing (FileNotFoundError),
\* or the process ran and left a return code and, when captured, its output
Outcome(found, returncode, out, err) ==
    [found |-> found, returncode |-> returncode, out |-> out, err |-> err]

NoResult == Outcome(FALSE, 0, "", "")

\* state at the entry of main
Start(a, e, file, ex) ==
    /\ pc = "main"
    /\ args = a
    /\ environ = e
    /\ cfgFile = file
    /\ existing = ex
    /\ config = NoConfig
    /\ idx = 0
    /\ linux_path = NoneVal
    /\ windows_paths = <<>>
    /\ cmd = <<>>
    /\ spawned = <<>>
    /\ result = NoResult
    /\ stdout = <<>>
    /\ stderr = <<>>
    /\ exit_code = Running

\* Either every combination of the configuration layers with a dry run and no
\* files, or a few combinations of the layers with every command line.
Init ==
    \/ \E o \in AllOverrides, e \in AllEnvirons, file \in AllFiles :
         Start(Args(<<>>, o, [verbose |-> FALSE, dry_run |-> TRUE,
                              init_config |-> FALSE, force |-> FALSE]),
               e, file, {})
    \/ \E o \in SomeOverrides, e \in SomeEnvirons, file \in SomeFiles,
          files \in FileLists, f \in Flags,
          ex \in SUBSET { Resolve(n) : n \in FileNames } :
         Start(Args(files, o, f), e, file, ex)

----------------------------------------------------------------------------
(* Configuration resolver *)

\* what reading the file raises ("none": nothing)
Raises(file) ==
    CASE file.kind = "unreadable" -> "OSError"
      [] file.kind = "malformed" -> "TOMLDecodeError"
      [] file.kind = "badutf8" -> "UnicodeDecodeError"
      [] OTHER -> "none"

\* CONFIG_FILE_PATH.exists()
Exists(file) == file.kind /= "absent"

\* except (OSError, tomllib.TOMLDecodeError)
CaughtByLoad == {"OSError", "TOMLDecodeError"}

\* load_config_file(): the dict returned, whether the warning was echoed, and
\* the exception that leaves the function ("none" when it returns)
load_config_file(file) ==
    IF ~Exists(file)
    THEN [data |-> EmptyTable, warned |-> FALSE, raised |-> "none"]
    ELSE IF Raises(file) = "none"
    THEN [data |-> file.data, warned |-> FALSE, raised |-> "none"]
    ELSE IF Raises(file) \in CaughtByLoad
    THEN [data |-> EmptyTable, warned |-> TRUE, raised |-> "none"]
    ELSE [data |-> EmptyTable, warned |-> FALSE, raised |-> Raises(file)]

\* get_config with the environment consulted after the config file
get_config_FileBeforeEnv(bottle_override, program_override, flatpak_app_id_override, env, file_config) ==
    Config(
        Or(Or(Or(bottle_override, file_config.bottle_name), env.SPSS_BOTTLE_NAME),
           DEFAULT_BOTTLE_NAME),
        Or(Or(Or(program_override, file_config.program_name), env.SPSS_PROGRAM_NAME),
           DEFAULT_PROGRAM_NAME),
        Or(Or(Or(flatpak_app_id_override, file_config.flatpak_app_id),
              env.BOTTLES_FLATPAK_APP_ID),
           DEFAULT_FLATPAK_APP_ID))

\* get_config without the built-in default of the program name
get_config_NoDefault(bottle_override, program_override, flatpak_app_id_override, env, file_config) ==
    Config(
        Or(Or(Or(bottle_override, env.SPSS_BOTTLE_NAME), file_config.bottle_name),
           DEFAULT_BOTTLE_NAME),
        Or(Or(program_override, env.SPSS_PROGRAM_NAME), file_config.program_name),
        Or(Or(Or(flatpak_app_id_override, env.BOTTLES_FLATPAK_APP_ID),
              file_config.flatpak_app_id),
           DEFAULT_FLATPAK_APP_ID))

\* get_config(bottle_override, program_override, flatpak_app_id_override),
\* given the dict returned by load_config_file
get_config(bottle_override, program_override, flatpak_app_id_override, env, file_config) ==
    Config(
        Or(Or(Or(bottle_override, env.SPSS_BOTTLE_NAME), file_config.bottle_name),
           DEFAULT_BOTTLE_NAME),
        Or(Or(Or(program_override, env.SPSS_PROGRAM_NAME), file_config.program_name),
           DEFAULT_PROGRAM_NAME),
        Or(Or(Or(flatpak_app_id_override, env.BOTTLES_FLATPAK_APP_ID),
              file_config.flatpak_app_id),
           DEFAULT_FLATPAK_APP_ID))

\* an exception nobody catches: traceback on stderr, the interpreter exits with 1
Uncaught(exc) ==
    /\ pc' = "done"
    /\ stderr' = Append(stderr, [kind |-> "Traceback", exc |-> exc])
    /\ exit_code' = 1

\* raise typer.Exit(code) after echoing a diagnostic to stderr
Exit(report, code) ==
    /\ pc' = "done"
    /\ stderr' = Append(stderr, report)
    /\ exit_code' = code

\* main, lines 296-300: config = get_config(...)
GetConfig ==
    /\ pc = "main"
    /\ LET loaded == load_config_file(cfgFile)
       IN  IF loaded.raised /= "none"
           THEN /\ Uncaught(loaded.raised)
                /\ UNCHANGED config
           ELSE /\ config' = get_config(args.bottle, args.program, args.flatpak_app_id,
                                        environ, loaded.data)
                /\ stderr' = IF loaded.warned
                             THEN Append(stderr, [kind |-> "ConfigFileWarning",
                                                  path |-> CONFIG_FILE_PATH])
                             ELSE stderr
                /\ pc' = "configured"
                /\ UNCHANGED exit_code
    /\ UNCHANGED <<args, environ, cfgFile, existing, idx, linux_path,
                   windows_paths, cmd, spawned, result, stdout>>

----------------------------------------------------------------------------
(* Config-file writer *)

\* the f-string written by create_config_file
config_content(bottle_name, program_name, flatpak_app_id) ==
    "# SPSS Wrapper Configuration\n"
    \o "# Values here are overridden by environment variables and CLI flags.\n"
    \o "\n"
    \o "bottle_name = \"" \o bottle_name \o "\"\n"
    \o "program_name = \"" \o program_name \o "\"\n"
    \o "flatpak_app_id = \"" \o flatpak_app_id \o "\"\n"

\* what the file system answers to mkdir and write_text; the parent directory
\* of a file that exists exists, and mkdir(exist_ok=True) then succeeds
WriteOutcomes(file) ==
    {"ok", "write_OSError"} \cup (IF Exists(file) THEN {} ELSE {"mkdir_OSError"})

\* the guard of create_config_file with the force flag inverted
Refuses_Inverted(file, force) == Exists(file) /\ force

\* the guard of create_config_file: refuse to overwrite
Refuses(file, force) == Exists(file) /\ ~force

\* main, lines 302-309: create_config_file(...) and return
CreateConfigFile ==
    /\ pc = "configured"
    /\ args.init_config
    /\ IF Refuses(cfgFile, args.force)
       THEN /\ pc' = "done"
            /\ stderr' = stderr \o << [kind |-> "ConfigFileExists", path |-> CONFIG_FILE_PATH],
                                     [kind |-> "UseForce"] >>
            /\ exit_code' = 1
            /\ UNCHANGED <<cfgFile, stdout>>
       ELSE \E w \in WriteOutcomes(cfgFile) :
              CASE w = "mkdir_OSError" ->
                     /\ Uncaught("OSError")
                     /\ UNCHANGED <<cfgFile, stdout>>
                [] w = "write_OSError" ->
                     /\ Exit([kind |-> "ConfigFileNotCreated"], 1)
                     /\ UNCHANGED <<cfgFile, stdout>>
                [] w = "ok" ->
                     /\ cfgFile' = [kind |-> "written",
                                    data |-> config_content(config.bottle_name,
                                                            config.program_name,
                                                            config.flatpak_app_id)]
                     /\ stdout' = Append(stdout, "Created config file: " \o CONFIG_FILE_PATH)
                     /\ pc' = "done"
                     /\ exit_code' = 0
                     /\ UNCHANGED stderr
    /\ UNCHANGED <<args, environ, existing, config, idx, linux_path,
                   windows_paths, cmd, spawned, result>>

----------------------------------------------------------------------------
(* Path translator *)

\* the argument vector of the translation helper
winepath_cmd(path, cfg) ==
    << "flatpak", "run", "--command=bottles-cli", cfg.flatpak_app_id,
       "shell", "-b", cfg.bottle_name, "-i", "winepath -w '" \o path \o "'" >>

\* standard outputs of the helper: the strings of at most n characters
OutChars == {" ", "C"}

RECURSIVE StringsUpTo(_)
StringsUpTo(n) ==
    IF n = 0 THEN {""}
    ELSE LET R == StringsUpTo(n - 1)
         IN  R \cup { r \o c : r \in R, c \in OutChars }

\* what the helper prints when it exits with 0: every short string, a path
\* with a blank inside and a final newline, a path between tabs and a CR LF
HelperStdouts == StringsUpTo(MaxOut) \cup {"C C\n", "\tC \r\n"}

\* how subprocess.run(cmd, capture_output=True, text=True, check=True) can end
HelperOutcomes ==
    { NoResult }
    \cup { Outcome(TRUE, 0, o, "") : o \in HelperStdouts }
    \cup { Outcome(TRUE, rc, oe[1], oe[2]) :
             rc \in {1, 2}, oe \in { <<"", "E">>, <<"C", "">> } }

\* translate_path_to_windows without the strip() of the captured output
translate_path_to_windows_NoStrip(path, cfg, r) ==
    IF ~r.found
    THEN [ok |-> FALSE, value |-> "", report |-> [kind |-> "LauncherMissing"]]
    ELSE IF r.returncode /= 0
    THEN [ok |-> FALSE, value |-> "",
          report |-> [kind |-> "TranslationFailed", path |-> path,
                      returncode |-> r.returncode, stdout |-> r.out,
                      stderr |-> r.err]]
    ELSE IF r.out = ""
    THEN [ok |-> FALSE, value |-> "",
          report |-> [kind |-> "EmptyTranslation", path |-> path]]
    ELSE [ok |-> TRUE, value |-> r.out, report |-> [kind |-> "none"]]

\* translate_path_to_windows: the value returned, or the diagnostic reported
\* before raising typer.Exit(1)
translate_path_to_windows(path, cfg, r) ==
    IF ~r.found
    THEN [ok |-> FALSE, value |-> "", report |-> [kind |-> "LauncherMissing"]]
    ELSE IF r.returncode /= 0
    THEN [ok |-> FALSE, value |-> "",
          report |-> [kind |-> "TranslationFailed", path |-> path,
                      returncode |-> r.returncode, stdout |-> r.out,
                      stderr |-> r.err]]
    ELSE IF Strip(r.out) = ""
    THEN [ok |-> FALSE, value |-> "",
          report |-> [kind |-> "EmptyTranslation", path |-> path]]
    ELSE [ok |-> TRUE, value |-> Strip(r.out), report |-> [kind |-> "none"]]

\* main, lines 311-317: echo the configuration when verbose, start the loop
EchoConfiguration ==
    /\ pc = "configured"
    /\ ~args.init_config
    /\ stdout' = IF args.verbose
                 THEN stdout \o << "Configuration:",
                                   "  Bottle: " \o config.bottle_name,
                                   "  Program: " \o config.program_name,
                                   "  Flatpak App ID: " \o config.flatpak_app_id >>
                 ELSE stdout
    /\ windows_paths' = <<>>
    /\ idx' = 1
    /\ pc' = "loop"
    /\ UNCHANGED <<args, environ, cfgFile, existing, config, linux_path,
                   cmd, spawned, result, stderr, exit_code>>

\* the validation step without the existence check
ValidatePath_NoCheck ==
    /\ pc = "loop"
    /\ idx <= Len(args.files)
    /\ linux_path' = Resolve(args.files[idx])
    /\ stdout' = IF args.verbose
                 THEN Append(stdout, "Resolved path: " \o args.files[idx]
                                     \o " -> " \o linux_path')
                 ELSE stdout
    /\ pc' = "translate"
    /\ UNCHANGED <<args, environ, cfgFile, existing, config, idx,
                   windows_paths, cmd, spawned, result, stderr, exit_code>>

\* main, line 321: linux_path = resolve_and_validate_path(file_path)
ValidatePath ==
    /\ pc = "loop"
    /\ idx <= Len(args.files)
    /\ LET file_path == args.files[idx]
           path == Resolve(file_path)
       IN  IF path \notin existing
           THEN /\ Exit([kind |-> "HostPathNotFound", path |-> path], 1)
                /\ UNCHANGED <<linux_path, stdout>>
           ELSE /\ linux_path' = path
                /\ stdout' = IF args.verbose
                             THEN Append(stdout, "Resolved path: " \o file_path
                                                 \o " -> " \o path)
                             ELSE stdout
                /\ pc' = "translate"
                /\ UNCHANGED <<stderr, exit_code>>
    /\ UNCHANGED <<args, environ, cfgFile, existing, config, idx,
                   windows_paths, cmd, spawned, result>>

\* the translation step going on to the next path after a failure
TranslatePath_SkipFailed ==
    /\ pc = "translate"
    /\ \E r \in HelperOutcomes :
         LET argv == winepath_cmd(linux_path, config)
             t == translate_path_to_windows(linux_path, config, r)
         IN  /\ spawned' = Append(spawned, argv)
             /\ result' = r
             /\ windows_paths' = IF t.ok THEN Append(windows_paths, t.value)
                                 ELSE windows_paths
             /\ stderr' = IF t.ok THEN stderr ELSE Append(stderr, t.report)
             /\ idx' = idx + 1
             /\ pc' = "loop"
    /\ UNCHANGED <<args, environ, cfgFile, existing, config, linux_path, cmd,
                   stdout, exit_code>>

\* main, lines 326-333: translate the path and append the result
TranslatePath ==
    /\ pc = "translate"
    /\ \E r \in HelperOutcomes :
         LET argv == winepath_cmd(linux_path, config)
             t == translate_path_to_windows(linux_path, config, r)
             echoed == IF args.verbose
                       THEN Append(stdout, "Running winepath command: " \o Join(argv))
                       ELSE stdout
         IN  /\ spawned' = Append(spawned, argv)
             /\ result' = r
             /\ IF t.ok
                THEN /\ windows_paths' = Append(windows_paths, t.value)
                     /\ stdout' = IF args.verbose
                                  THEN Append(echoed, "Windows path: " \o t.value)
                                  ELSE echoed
                     /\ idx' = idx + 1
                     /\ pc' = "loop"
                     /\ UNCHANGED <<stderr, exit_code>>
                ELSE /\ Exit(t.report, 1)
                     /\ stdout' = echoed
                     /\ UNCHANGED <<windows_paths, idx>>
    /\ UNCHANGED <<args, environ, cfgFile, existing, config, linux_path, cmd>>

----------------------------------------------------------------------------
(* Command builder and launch *)

\* build_spss_command with the bottle and the program exchanged
build_spss_command_Swapped(cfg, paths) ==
    << "flatpak", "run", "--command=bottles-cli", cfg.flatpak_app_id,
       "run", "-b", cfg.program_name, "-p", cfg.bottle_name >> \o paths

\* build_spss_command(config, windows_paths)
build_spss_command(cfg, paths) ==
    << "flatpak", "run", "--command=bottles-cli", cfg.flatpak_app_id,
       "run", "-b", cfg.bottle_name, "-p", cfg.program_name >> \o paths

\* main, lines 335-341: build the vector, echo it, return on a dry run
BuildCommand ==
    /\ pc = "loop"
    /\ idx > Len(args.files)
    /\ cmd' = build_spss_command(config, windows_paths)
    /\ stdout' = IF args.dry_run \/ args.verbose
                 THEN Append(stdout, "Command: " \o Join(cmd'))
                 ELSE stdout
    /\ IF args.dry_run
       THEN /\ pc' = "done"
            /\ exit_code' = 0
       ELSE /\ pc' = "launch"
            /\ UNCHANGED exit_code
    /\ UNCHANGED <<args, environ, cfgFile, existing, config, idx, linux_path,
                   windows_paths, spawned, result, stderr>>

\* how subprocess.run(cmd, check=True) can end; the output is not captured
LaunchOutcomes ==
    { NoResult } \cup { Outcome(TRUE, rc, "", "") : rc \in {0, 1, 2, 255} }

\* the launch handler exiting with 1 whatever the launched program returned
launch_exit_AlwaysOne(r) ==
    IF ~r.found
    THEN [report |-> [kind |-> "LauncherMissing"], code |-> 1]
    ELSE IF r.returncode /= 0
    THEN [report |-> [kind |-> "LaunchFailed", returncode |-> r.returncode],
          code |-> 1]
    ELSE [report |-> [kind |-> "none"], code |-> 0]

\* main, lines 343-357: the diagnostic and the exit code after the launch
launch_exit(r) ==
    IF ~r.found
    THEN [report |-> [kind |-> "LauncherMissing"], code |-> 1]
    ELSE IF r.returncode /= 0
    THEN [report |-> [kind |-> "LaunchFailed", returncode |-> r.returncode],
          code |-> r.returncode]
    ELSE [report |-> [kind |-> "none"], code |-> 0]

\* main, lines 343-357: run the command
Launch ==
    /\ pc = "launch"
    /\ \E r \in LaunchOutcomes :
         LET e == launch_exit(r)
         IN  /\ spawned' = Append(spawned, cmd)
             /\ result' = r
             /\ IF e.report.kind /= "none"
                THEN Exit(e.report, e.code)
                ELSE /\ pc' = "done"
                     /\ exit_code' = e.code
                     /\ UNCHANGED stderr
    /\ UNCHANGED <<args, environ, cfgFile, existing, config, idx, linux_path,
                   windows_paths, cmd, stdout>>

----------------------------------------------------------------------------
(* The run *)

Next ==
    \/ GetConfig
    \/ CreateConfigFile
    \/ EchoConfiguration
    \/ ValidatePath
    \/ TranslatePath
    \/ BuildCommand
    \/ Launch

Spec == Init /\ [][Next]_vars

----------------------------------------------------------------------------
(* Vocabulary of the properties *)

NumFiles == Len(args.files)

\* the i-th positional argument does not exist on the host
NonexistentAt(i) == Resolve(args.files[i]) \notin existing

\* the k-th subprocess.run call is the translation helper of the k-th argument
IsHelperOf(argv, k) == argv = winepath_cmd(Resolve(args.files[k]), config)

\* get_config has returned
Resolved == config /= NoConfig

AllWhitespace(s) == \A i \in 1..Len(s) : SubSeq(s, i, i) \in Whitespace

\* t is s without its leading and trailing whitespace
IsTrimOf(t, s) ==
    \E i \in 1..Len(s), j \in 1..Len(s) :
        /\ i <= j
        /\ t = SubSeq(s, i, j)
        /\ AllWhitespace(SubSeq(s, 1, i - 1))
        /\ AllWhitespace(SubSeq(s, j + 1, Len(s)))
        /\ SubSeq(s, i, i) \notin Whitespace
        /\ SubSeq(s, j, j) \notin Whitespace

LastReport == IF stderr = <<>> THEN [kind |-> "none"] ELSE stderr[Len(stderr)]

\* the last subprocess.run call was the translation helper of argument idx
JustTranslated ==
    \/ pc = "loop" /\ idx > 1 /\ Len(spawned) = idx - 1
    \/ pc = "done" /\ idx \in 1..NumFiles /\ Len(spawned) = idx

\* the run ended while validating or translating argument idx
PathFailed == pc = "done" /\ idx \in 1..NumFiles

\* the final launch was run
LaunchRan == pc = "done" /\ cmd /= <<>> /\ ~args.dry_run

\* the value the file layer supplies: nothing unless the file parses
FileLayer == IF cfgFile.kind = "valid" THEN cfgFile.data ELSE EmptyTable

\* r is the first non-empty candidate of <<o, e, f>>, or d when there is none
FirstNonEmpty(r, o, e, f, d) ==
    /\ Truthy(o) => r = o
    /\ ~Truthy(o) /\ Truthy(e) => r = e
    /\ ~Truthy(o) /\ ~Truthy(e) /\ Truthy(f) => r = f
    /\ ~Truthy(o) /\ ~Truthy(e) /\ ~Truthy(f) => r = d

----------------------------------------------------------------------------
(* C1: when get_config has returned, each of the three fields is the first *)
(* non-empty candidate among override, environment variable and config-file *)
(* value, in this order, and the built-in default when no layer supplies it. *)
C1_PriorityPerField ==
    pc = "configured" =>
        /\ FirstNonEmpty(config.bottle_name, args.bottle, environ.SPSS_BOTTLE_NAME,
                         FileLayer.bottle_name, "SPSS")
        /\ FirstNonEmpty(config.program_name, args.program, environ.SPSS_PROGRAM_NAME,
                         FileLayer.program_name, "SPSS")
        /\ FirstNonEmpty(config.flatpak_app_id, args.flatpak_app_id,
                         environ.BOTTLES_FLATPAK_APP_ID, FileLayer.flatpak_app_id,
                         "com.usebottles.bottles")

\* the three fields resolved from three different layers while lower layers are set
C1_Witness ==
    /\ pc = "configured"
    /\ args.bottle = "Bc" /\ environ.SPSS_BOTTLE_NAME = "Be"
    /\ FileLayer.bottle_name = "Bf" /\ config.bottle_name = "Bc"
    /\ args.program = "" /\ environ.SPSS_PROGRAM_NAME = "Pe"
    /\ FileLayer.program_name = "Pf" /\ config.program_name = "Pe"
    /\ args.flatpak_app_id = NoneVal /\ environ.BOTTLES_FLATPAK_APP_ID = ""
    /\ FileLayer.flatpak_app_id = NoneVal
    /\ config.flatpak_app_id = "com.usebottles.bottles"

----------------------------------------------------------------------------
(* C2, as stated: in a run over a list that contains a path which does not *)
(* exist, no external process is ever spawned and the run ends with exit   *)
(* code 1.  (Runs with --init-config, which never look at the paths, are    *)
(* left out.)                                                               *)
C2_Original ==
    (~args.init_config /\ \E i \in 1..NumFiles : NonexistentAt(i)) =>
        /\ spawned = <<>>
        /\ pc = "done" => exit_code = 1

(* C2, amended: the existence check of a path precedes the processes spawned *)
(* for that path and for every later one.  When argument i does not exist,   *)
(* at most i-1 processes are ever spawned, the k-th being the translation    *)
(* helper of argument k, so neither a helper for argument i or a later one   *)
(* nor the final launch; and a run without --init-config ends with exit code *)
(* 1.                                                                        *)
C2_CheckBeforeOwnSpawn ==
    \A i \in 1..NumFiles :
        NonexistentAt(i) =>
            /\ Len(spawned) <= i - 1
            /\ \A k \in 1..Len(spawned) : IsHelperOf(spawned[k], k)
            /\ (pc = "done" /\ ~args.init_config) => exit_code = 1

\* the run ended at the missing second path, after the helper of the first ran
C2_Witness ==
    /\ pc = "done"
    /\ NumFiles = 2
    /\ ~NonexistentAt(1) /\ NonexistentAt(2)
    /\ idx = 2
    /\ Len(spawned) = 1
    /\ LastReport.kind = "HostPathNotFound"
    /\ exit_code = 1

----------------------------------------------------------------------------
(* C3: whatever the state of the config file, get_config completes with a  *)
(* Configuration: the run never ends inside it; an absent file gives an    *)
(* empty layer silently, a file that is present but cannot be read or      *)
(* parsed gives one warning and an empty layer.                            *)
C3_ResolutionNeverFatal ==
    /\ pc /= "main" => Resolved
    /\ pc = "configured" =>
         /\ cfgFile.kind \in {"absent", "valid"} => stderr = <<>>
         /\ cfgFile.kind \in {"unreadable", "malformed", "badutf8"} =>
              /\ Len(stderr) = 1
              /\ stderr[1].kind = "ConfigFileWarning"
              /\ config = get_config(args.bottle, args.program, args.flatpak_app_id,
                                     environ, EmptyTable)

----------------------------------------------------------------------------
(* C4: the paths are processed in order and one at a time.  The k-th       *)
(* process spawned is the helper of the k-th path (the launch comes after  *)
(* all of them), so no helper runs twice; the helper of path k+1 is only   *)
(* spawned after k translations have succeeded; and once a path has failed *)
(* the run is over with exit code 1, no helper of a later path and no      *)
(* launch having been spawned.                                             *)
C4_SequentialFailFast ==
    /\ Len(spawned) <= NumFiles + 1
    /\ \A k \in 1..Len(spawned) :
         /\ k <= NumFiles => IsHelperOf(spawned[k], k)
         /\ k = NumFiles + 1 => spawned[k] = cmd /\ cmd /= <<>>
         /\ Len(windows_paths) >= k - 1
    /\ Len(windows_paths) <= Len(spawned)
    /\ PathFailed =>
         /\ exit_code = 1
         /\ Len(windows_paths) = idx - 1
         /\ Len(spawned) <= idx
         /\ \A k \in 1..Len(spawned) : IsHelperOf(spawned[k], k)

\* the first path translated, the helper of the second one failed
C4_Witness ==
    /\ PathFailed
    /\ NumFiles = 2
    /\ idx = 2
    /\ Len(spawned) = 2
    /\ args.files[1] /= args.files[2]
    /\ Len(windows_paths) = 1
    /\ LastReport.kind = "TranslationFailed"

----------------------------------------------------------------------------
(* C5: the vector built is: launcher, sub-command tokens, flatpak app id,  *)
(* run directive, bottle name, program name, then the translated paths     *)
(* verbatim in their order, the last one being the trimmed output of the   *)
(* last translation; with no paths it ends at the program name.            *)
C5_VectorLayout ==
    cmd /= <<>> =>
        /\ Len(cmd) = 9 + Len(windows_paths)
        /\ Len(windows_paths) = NumFiles
        /\ cmd[1] = "flatpak"
        /\ cmd[2] = "run" /\ cmd[3] = "--command=bottles-cli"
        /\ cmd[4] = config.flatpak_app_id
        /\ cmd[5] = "run" /\ cmd[6] = "-b"
        /\ cmd[7] = config.bottle_name
        /\ cmd[8] = "-p"
        /\ cmd[9] = config.program_name
        /\ \A k \in 1..Len(windows_paths) : cmd[9 + k] = windows_paths[k]
        /\ (NumFiles > 0 /\ Len(spawned) = NumFiles) =>
              IsTrimOf(cmd[Len(cmd)], result.out)
        /\ NumFiles = 0 => cmd[Len(cmd)] = config.program_name

\* a vector with two different translated paths and a bottle that is not the program
C5_Witness ==
    /\ pc = "launch"
    /\ Len(cmd) = 11
    /\ cmd[10] = "C" /\ cmd[11] = "C C"
    /\ result.out = "C C\n"
    /\ cmd[7] /= cmd[9]

----------------------------------------------------------------------------
(* C6: the exit code is 0 after a successful launch, after a dry run and   *)
(* after the config file was written; 1 after a path that does not exist,  *)
(* after a translation that failed (launcher missing, non-zero exit, empty *)
(* result) and after a launch whose launcher is missing; and the launched  *)
(* program's own code after a launch that exited non-zero.                 *)
C6_ExitCodes ==
    pc = "done" =>
        /\ (LaunchRan /\ result.found /\ result.returncode = 0) => exit_code = 0
        /\ (cmd /= <<>> /\ args.dry_run) => exit_code = 0
        /\ cfgFile.kind = "written" => exit_code = 0
        /\ (PathFailed /\ Len(spawned) = idx - 1 /\ NonexistentAt(idx)) => exit_code = 1
        /\ (PathFailed /\ Len(spawned) = idx) =>
              /\ ~result.found \/ result.returncode /= 0 \/ AllWhitespace(result.out)
              /\ exit_code = 1
        /\ (LaunchRan /\ ~result.found) => exit_code = 1
        /\ (LaunchRan /\ result.found /\ result.returncode /= 0) =>
              exit_code = result.returncode

\* the launched program exited with 255 and so does the run
C6_Witness ==
    /\ LaunchRan
    /\ result.found
    /\ result.returncode = 255
    /\ exit_code = 255
    /\ NumFiles = 1

----------------------------------------------------------------------------
(* C7: the outcome of the helper falls in one of three cases.  Non-zero    *)
(* exit: the run ends with code 1 and a TranslationFailed report carrying  *)
(* the exit code, stdout and stderr.  Zero exit and only whitespace on     *)
(* stdout: the run ends with code 1 and an EmptyTranslation report.  Zero  *)
(* exit otherwise: the path appended is stdout without its surrounding     *)
(* whitespace.  No translated path is empty or only whitespace.            *)
C7_TranslationOutcomes ==
    /\ \A k \in 1..Len(windows_paths) : ~AllWhitespace(windows_paths[k])
    /\ (JustTranslated /\ result.found) =>
         /\ result.returncode /= 0 =>
              /\ pc = "done" /\ exit_code = 1
              /\ LastReport.kind = "TranslationFailed"
              /\ LastReport.returncode = result.returncode
              /\ LastReport.stdout = result.out
              /\ LastReport.stderr = result.err
         /\ (result.returncode = 0 /\ AllWhitespace(result.out)) =>
              /\ pc = "done" /\ exit_code = 1
              /\ LastReport.kind = "EmptyTranslation"
         /\ (result.returncode = 0 /\ ~AllWhitespace(result.out)) =>
              /\ pc = "loop"
              /\ Len(windows_paths) = idx - 1
              /\ IsTrimOf(windows_paths[idx - 1], result.out)

\* a helper that printed only blanks ended the run with EmptyTranslation
C7_Witness ==
    /\ JustTranslated
    /\ result.found /\ result.returncode = 0
    /\ result.out = "  "
    /\ LastReport.kind = "EmptyTranslation"
    /\ exit_code = 1

----------------------------------------------------------------------------
(* C8: in dry-run mode the launch is never spawned, and a run whose paths  *)
(* all exist and all translate ends with exit code 0 after echoing the     *)
(* whole vector, verbose or not.                                           *)
C8_DryRun ==
    (args.dry_run /\ ~args.init_config) =>
        /\ Len(spawned) <= NumFiles
        /\ \A k \in 1..Len(spawned) : IsHelperOf(spawned[k], k)
        /\ (/\ pc = "done"
            /\ \A i \in 1..NumFiles : ~NonexistentAt(i)
            /\ Len(windows_paths) = NumFiles) =>
              /\ exit_code = 0
              /\ stdout /= <<>>
              /\ stdout[Len(stdout)] =
                    "Command: " \o Join(<< "flatpak", "run", "--command=bottles-cli",
                                           config.flatpak_app_id, "run", "-b",
                                           config.bottle_name, "-p",
                                           config.program_name >> \o windows_paths)

----------------------------------------------------------------------------
C9_State ==
    (Resolved \/ pc \in {"configured", "loop", "translate", "launch"}) =>
        /\ Truthy(config.bottle_name)
        /\ Truthy(config.program_name)
        /\ Truthy(config.flatpak_app_id)

C9_Step == Resolved => config' = config

(* C9: once get_config has returned, the three fields of the Configuration *)
(* are non-empty, and no later step of the run changes the record.         *)
C9_NonEmptyAndFrozen == []C9_State /\ [][C9_Step]_vars

\* every layer empty or missing for one field, and the run went on to its end
C9_Witness ==
    /\ pc = "done"
    /\ Resolved
    /\ args.program = "" /\ environ.SPSS_PROGRAM_NAME = ""
    /\ cfgFile.kind = "valid" /\ cfgFile.data.program_name = ""
    /\ cfgFile.data.bottle_name = NoneVal
    /\ config.program_name = "SPSS"
    /\ cmd /= <<>>

----------------------------------------------------------------------------
C10_State ==
    args.init_config =>
        /\ spawned = <<>> /\ idx = 0 /\ linux_path = NoneVal
        /\ windows_paths = <<>> /\ cmd = <<>>
        /\ (pc = "done" /\ ~args.force /\ cfgFile.kind \notin {"absent", "written"}) =>
              exit_code = 1

C10_Step ==
    /\ (Exists(cfgFile) /\ ~args.force) => cfgFile' = cfgFile
    /\ cfgFile' /= cfgFile =>
         /\ args.init_config
         /\ cfgFile'.kind = "written"
         /\ cfgFile'.data =
               "# SPSS Wrapper Configuration\n"
               \o "# Values here are overridden by environment variables and CLI flags.\n\n"
               \o "bottle_name = \"" \o config.bottle_name \o "\"\n"
               \o "program_name = \"" \o config.program_name \o "\"\n"
               \o "flatpak_app_id = \"" \o config.flatpak_app_id \o "\"\n"

(* C10: config-file initialization refuses to overwrite.  A file that      *)
(* exists is left unchanged unless --force is given, and the run then ends *)
(* with exit code 1; the file only changes in an --init-config run, and    *)
(* then to the text holding the three resolved values.  An --init-config   *)
(* run validates no path and spawns no process.                            *)
C10_RefusesOverwrite == []C10_State /\ [][C10_Step]_vars

\* an existing file, no --force: refused, file as it was, exit code 1
C10_Witness ==
    /\ pc = "done"
    /\ args.init_config /\ ~args.force
    /\ cfgFile.kind = "valid"
    /\ LastReport.kind = "UseForce"
    /\ exit_code = 1
    /\ args.files /= <<>>

====
